---------------------------- MODULE Spec2Model ----------------------------
(***************************************************************************)
(* TinyNav host tools: the serial-line protocol code of                    *)
(*   read_serial.py   (read_frame: ASCII depth frames ended by FRAME_END)  *)
(*   download_log.py  (SerialFileDownloader.list_files: LIST_FILES)        *)
(* A line of text is a sequence of one-character strings, so that          *)
(* startswith, split, rstrip and int() are modelled character by           *)
(* character.  Python's 0-based indices become 1-based sequence indices.   *)
(***************************************************************************)
EXTENDS Integers, Sequences, FiniteSets, TLC

VARIABLES
    \* ---- read_serial.py: read_frame -------------------------------------
    rf_pc,        \* "idle" | "reading" (inside the while True loop) | "returned"
    rows,         \* read_frame's local list `rows`
    frame,        \* the frame read_frame returned (<<>> while none)
    rf_line,      \* read_frame's local `line`: the last decoded, stripped line
    rf_expired,   \* history: the last ser.readline() returned b"" (its timeout expired)
    sinceEnd,     \* history: the COLS-long lines read since the previous FRAME_END
    discardedK,   \* history: Len(sinceEnd) at the last rows.clear() (-1: none yet)
    \* ---- download_log.py: SerialFileDownloader.list_files ----------------
    lf_pc,        \* "idle" | "running" (inside the while loop) | "done" | "raised"
    lf_files,     \* local list `files`
    lf_dirs,      \* local list `dirs`
    lf_receiving, \* local `receiving`
    lf_start,     \* local `start`
    lf_line,      \* local `line`: the last decoded, stripped line
    lf_result,    \* the returned value: NoneValue or a list of entries
    lf_stderr,    \* what was written to sys.stderr (<<>> while nothing)
    lf_exit,      \* how the loop ended: "none" | "end" | "error" | "deadline" | "exception"
    now,          \* time.time(), in whole seconds
    lastProgress, \* history: time of the last FILE_LIST_START / accepted entry line
    ser_out,      \* the last command written to the serial port (<<>> while none)
    \* ---- download_log.py: SerialFileDownloader.download_file -------------
    df_pc,        \* "idle" | "running" (inside the while loop) | "done" | "raised"
    df_file_data, \* local list `file_data`
    df_receiving, \* local `receiving`
    df_file_size, \* local `file_size`
    df_bytes_received, \* local `bytes_received`
    df_start,     \* local `start`
    df_line,      \* local `line`: the last decoded, stripped line
    df_result,    \* the returned pair [content, error]
    df_calls,     \* the calls of progress_callback, in order
    df_exit,      \* how the loop ended: "none" | "end" | "error" | "deadline" | "exception"
    df_wasReceiving, \* history: `receiving` when the loop was left
    df_lastProgress, \* history: time of the last FILE_SIZE / FILE_START / payload line
    df_modeSeen,  \* history: a FILE_SIZE:<n> or FILE_START line was received
    df_declared,  \* history: <n> of the last FILE_SIZE:<n> line (-1: none received)
    df_payload,   \* history: the non-empty, non-sentinel lines received since
                  \* df_modeSeen, each with df_declared at its arrival
    df_earlySeen, \* history: such a line was received before df_modeSeen
    \* ---- download_log.py: SerialFileDownloader.get_current_log_filename --
    gl_pc,        \* "idle" | "running" (inside the while loop) | "done"
    gl_start,     \* local `start`
    gl_line,      \* local `line`: the last decoded, stripped line
    gl_result,    \* the returned value
    gl_exit,      \* how the loop ended: "none" | "found" | "deadline"
    inbuf,        \* the input buffer of self.ser: raw lines not read yet, each
                  \* with the number of the command it answers
    wire,         \* lines the device has produced and not delivered yet
    dev_answer,   \* the line with which the device answers GET_LOG_FILENAME
    gl_sent,      \* history: number of GET_LOG_FILENAME commands sent
    gl_from,      \* history: the command answered by the line that was returned
    gl_results,   \* history: the values returned so far, in call order
    gl_ignored,   \* history: lines the current call read and passed over
    \* ---- download_log.py: tui_main ---------------------------------------
    tui_pc,       \* "init" | "draw" (top of the while loop) | "key" (in getch)
                  \* | "returned" | "raised"
    files,        \* local `files`: what list_files returned last
    current_row,  \* local `current_row`
    status_msg,   \* local `status_msg`
    tui_result,   \* the value tui_main returned
    tui_exc       \* the exception that left tui_main ("none" while none)

rfVars == <<rf_pc, rows, frame, rf_line, rf_expired, sinceEnd, discardedK>>
lfVars == <<lf_pc, lf_files, lf_dirs, lf_receiving, lf_start, lf_line, lf_result,
            lf_stderr, lf_exit, now, lastProgress, ser_out>>
dfVars == <<df_pc, df_file_data, df_receiving, df_file_size, df_bytes_received,
            df_start, df_line, df_result, df_calls, df_exit, df_wasReceiving,
            df_lastProgress, df_modeSeen, df_declared, df_payload, df_earlySeen>>
\* The locals of list_files, without the clock and the port.
lfLocals == <<lf_pc, lf_files, lf_dirs, lf_receiving, lf_start, lf_line, lf_result,
              lf_stderr, lf_exit, lastProgress>>
glVars == <<gl_pc, gl_start, gl_line, gl_result, gl_exit, inbuf, wire, dev_answer,
            gl_sent, gl_from, gl_results, gl_ignored>>
tuiVars == <<tui_pc, files, current_row, status_msg, tui_result, tui_exc>>
vars == <<rfVars, lfVars, dfVars, glVars, tuiVars>>

(***************************************************************************)
(* Bounds of the model.                                                    *)
(***************************************************************************)
\* Grid dimensions (args.rows / args.cols, 25 by default).
ROWS == 2
COLS == 2
\* COLS-long lines read beyond ROWS between two FRAME_END lines.
MaxExtra == 1
\* Entries (FILE: and DIR: lines) the device reports in one listing.
MaxEntries == 4
\* The latest second at which the clock is still advanced.
MaxNow == 6
\* Payload lines download_file appends in one transfer.
MaxPayload == 2
\* Clock steps (of DfTickStep seconds) during one download.
MaxTicks == 3
\* GET_LOG_FILENAME commands sent on one connection.
MaxCalls == 3
\* Entries on the SD card that list_files can report to the browser.
MaxListing == 3

(***************************************************************************)
(* Text helpers shared by both programs.                                   *)
(***************************************************************************)
\* Bytes that are not ASCII; bytes.decode("ascii", errors="ignore") drops them.
NonAscii == {"0x80", "0xFF"}

DecodeAsciiIgnore(raw) == SelectSeq(raw, LAMBDA b : b \notin NonAscii)

RECURSIVE RStripChars(_, _)
\* str.rstrip(chars): remove the trailing characters that are in chars.
RStripChars(s, chars) ==
    IF s # <<>> /\ s[Len(s)] \in chars
    THEN RStripChars(SubSeq(s, 1, Len(s) - 1), chars)
    ELSE s

\* The last n elements of s (all of s when it is shorter).
LastN(s, n) == IF Len(s) <= n THEN s ELSE SubSeq(s, Len(s) - n + 1, Len(s))

(***************************************************************************)
(* read_serial.py                                                          *)
(***************************************************************************)
DEPTH_CHARS == <<" ", ".", ":", "-", "=", "+", "*", "#", "%", "@">>

CHAR_TO_VALUE ==
    [ch \in {DEPTH_CHARS[i] : i \in 1..Len(DEPTH_CHARS)} |->
        (CHOOSE i \in 1..Len(DEPTH_CHARS) : DEPTH_CHARS[i] = ch) - 1]

CharToValueGetMut(ch, default) ==
    IF ch \in DOMAIN CHAR_TO_VALUE THEN CHAR_TO_VALUE[ch] + 1 ELSE default

\* CHAR_TO_VALUE.get(ch, default)
CharToValueGet(ch, default) ==
    IF ch \in DOMAIN CHAR_TO_VALUE THEN CHAR_TO_VALUE[ch] ELSE default

FRAME_END == <<"F", "R", "A", "M", "E", "_", "E", "N", "D">>

\* line = ser.readline().decode("ascii", errors="ignore").rstrip("\r\n")
RfDecodeLine(raw) == RStripChars(DecodeAsciiIgnore(raw), {"\r", "\n"})

\* if len(rows) == ROWS
FrameComplete(rs) == Len(rs) = ROWS

\* frame = np.zeros((ROWS, COLS)); frame[r, c] = CHAR_TO_VALUE.get(ch, 0)
BuildFrame(rs) ==
    [r \in 1..ROWS |->
        [c \in 1..COLS |->
            IF c <= Len(rs[r]) THEN CharToValueGet(rs[r][c], 0) ELSE 0]]

ClearRowsMut(rs) == rs

\* rows.clear()
ClearRows(rs) == <<>>

AdmitMut(rs, l) ==
    IF Len(l) = COLS
    THEN IF Len(rs) >= ROWS THEN rs ELSE Append(rs, l)
    ELSE rs

AdmitAnyLengthMut(rs, l) ==
    LET a == Append(rs, l) IN IF Len(a) > ROWS THEN Tail(a) ELSE a

\* if len(line) == COLS: rows.append(line); if len(rows) > ROWS: rows.pop(0)
Admit(rs, l) ==
    IF Len(l) = COLS
    THEN LET a == Append(rs, l) IN IF Len(a) > ROWS THEN Tail(a) ELSE a
    ELSE rs

\* ---- what the transport can deliver to read_frame ------------------------
\* A line of COLS characters alternating c1, c2.
RowOf(c1, c2) == [i \in 1..COLS |-> IF i % 2 = 1 THEN c1 ELSE c2]

\* "x" is not in DEPTH_CHARS.
RowPatterns == {<<"@", "x">>, <<" ", "@">>, <<".", "#">>, <<"x", "x">>}

ValidRows == {RowOf(p[1], p[2]) : p \in RowPatterns}

RfBodies ==
    ValidRows
    \cup {FRAME_END, <<>>}
    \cup {[i \in 1..(COLS - 1) |-> "@"], [i \in 1..(COLS + 1) |-> "@"]}
    \cup {<<"0x80">> \o RowOf("@", "x")}

\* readline() returns a line with its terminator, a partial line when its
\* timeout expires, or b"" when nothing arrived at all.
RfRawLines == {b \o t : b \in RfBodies, t \in {<<>>, <<"\n">>, <<"\r", "\n">>}}

RfInit ==
    /\ rf_pc = "idle"
    /\ rows = <<>>
    /\ frame = <<>>
    /\ rf_line = <<>>
    /\ rf_expired = FALSE
    /\ sinceEnd = <<>>
    /\ discardedK = -1

\* main(): frame = read_frame()  --  rows = []
RfCall ==
    /\ rf_pc \in {"idle", "returned"}
    /\ rf_pc' = "reading"
    /\ rows' = <<>>
    /\ frame' = <<>>
    /\ rf_line' = <<>>
    /\ rf_expired' = FALSE
    /\ sinceEnd' = <<>>
    /\ discardedK' = -1
    /\ UNCHANGED <<lfVars, dfVars, glVars, tuiVars>>

\* One iteration of read_frame's while True loop.
RfReadLine(raw) ==
    /\ rf_pc = "reading"
    /\ LET l == RfDecodeLine(raw) IN
       /\ (Len(l) = COLS /\ l # FRAME_END) => Len(sinceEnd) < ROWS + MaxExtra
       /\ rf_line' = l
       /\ rf_expired' = (raw = <<>>)
       /\ IF l = <<>>
          THEN UNCHANGED <<rf_pc, rows, frame, sinceEnd, discardedK>>
          ELSE IF l = FRAME_END
          THEN IF FrameComplete(rows)
               THEN /\ frame' = BuildFrame(rows)
                    /\ rf_pc' = "returned"
                    /\ UNCHANGED <<rows, sinceEnd, discardedK>>
               ELSE /\ rows' = ClearRows(rows)
                    /\ discardedK' = Len(sinceEnd)
                    /\ sinceEnd' = <<>>
                    /\ UNCHANGED <<rf_pc, frame>>
          ELSE /\ rows' = Admit(rows, l)
               /\ sinceEnd' = IF Len(l) = COLS THEN Append(sinceEnd, l) ELSE sinceEnd
               /\ UNCHANGED <<rf_pc, frame, discardedK>>
    /\ UNCHANGED <<lfVars, dfVars, glVars, tuiVars>>

(***************************************************************************)
(* download_log.py: text operations of Python used by list_files.          *)
(***************************************************************************)
\* The printable ASCII characters, chr(32) .. chr(126), in code-point order
\* (chr(96), the grave accent, is written "0x60").
PrintableAscii ==
    << " ", "!", "\"", "#", "$", "%", "&", "'", "(", ")", "*", "+",
       ",", "-", ".", "/", "0", "1", "2", "3", "4", "5", "6", "7",
       "8", "9", ":", ";", "<", "=", ">", "?", "@", "A", "B", "C",
       "D", "E", "F", "G", "H", "I", "J", "K", "L", "M", "N", "O",
       "P", "Q", "R", "S", "T", "U", "V", "W", "X", "Y", "Z", "[",
       "\\", "]", "^", "_", "0x60", "a", "b", "c", "d", "e", "f", "g",
       "h", "i", "j", "k", "l", "m", "n", "o", "p", "q", "r", "s",
       "t", "u", "v", "w", "x", "y", "z", "{", "|", "}", "~" >>

\* ord(c), for a printable ASCII character.
Ord(c) == 31 + (CHOOSE i \in 1..Len(PrintableAscii) : PrintableAscii[i] = c)

RECURSIVE StrLess(_, _)
\* a < b on Python str: lexicographic by code point.
StrLess(a, b) ==
    IF b = <<>> THEN FALSE
    ELSE IF a = <<>> THEN TRUE
    ELSE IF a[1] # b[1] THEN Ord(a[1]) < Ord(b[1])
    ELSE StrLess(Tail(a), Tail(b))

\* s.startswith(p)
StartsWith(s, p) == Len(s) >= Len(p) /\ SubSeq(s, 1, Len(p)) = p

\* c in s
Contains(s, c) == \E i \in 1..Len(s) : s[i] = c

\* s.index(c), 1-based
IndexOf(s, c) == CHOOSE i \in 1..Len(s) : s[i] = c /\ \A j \in 1..(i - 1) : s[j] # c

RECURSIVE Split(_, _, _)
\* s.split(sep, maxsplit) for a one-character sep; maxsplit = -1: no limit.
Split(s, sep, maxsplit) ==
    IF maxsplit = 0 \/ ~Contains(s, sep) THEN <<s>>
    ELSE LET i == IndexOf(s, sep) IN
         <<SubSeq(s, 1, i - 1)>>
             \o Split(SubSeq(s, i + 1, Len(s)), sep,
                      IF maxsplit < 0 THEN maxsplit ELSE maxsplit - 1)

\* Whitespace removed by str.rstrip() / str.strip() and accepted around int().
Whitespace == {" ", "\t", "\r", "\n"}

RECURSIVE LStripChars(_, _)
LStripChars(s, chars) ==
    IF s # <<>> /\ s[1] \in chars THEN LStripChars(Tail(s), chars) ELSE s

Digits == {"0", "1", "2", "3", "4", "5", "6", "7", "8", "9"}

DigitValue(d) == Ord(d) - 48

\* The text of an int() argument without surrounding whitespace and sign.
IntBody(s) ==
    LET t == LStripChars(RStripChars(s, Whitespace), Whitespace) IN
    IF t # <<>> /\ t[1] \in {"+", "-"} THEN Tail(t) ELSE t

IntNegative(s) ==
    LET t == LStripChars(RStripChars(s, Whitespace), Whitespace) IN
    t # <<>> /\ t[1] = "-"

\* int(s) does not raise ValueError: digits, single underscores between them.
IntValid(s) ==
    LET b == IntBody(s) IN
    /\ b # <<>>
    /\ b[1] \in Digits
    /\ b[Len(b)] \in Digits
    /\ \A i \in 1..Len(b) : b[i] \in Digits \cup {"_"}
    /\ \A i \in 1..(Len(b) - 1) : ~(b[i] = "_" /\ b[i + 1] = "_")

RECURSIVE DigitsValue(_)
DigitsValue(b) ==
    IF b = <<>> THEN 0
    ELSE IF b[Len(b)] = "_" THEN DigitsValue(SubSeq(b, 1, Len(b) - 1))
    ELSE 10 * DigitsValue(SubSeq(b, 1, Len(b) - 1)) + DigitValue(b[Len(b)])

\* int(s), where IntValid(s)
IntValue(s) == IF IntNegative(s) THEN 0 - DigitsValue(IntBody(s)) ELSE DigitsValue(IntBody(s))

RECURSIVE SortedByName(_)
\* sorted(seq, key=lambda x: x["name"]): stable, ascending by name.
SortedByName(seq) ==
    IF seq = <<>> THEN <<>>
    ELSE LET x == seq[Len(seq)]
             t == SortedByName(SubSeq(seq, 1, Len(seq) - 1))
         IN SelectSeq(t, LAMBDA e : ~StrLess(x.name, e.name))
                \o <<x>>
                \o SelectSeq(t, LAMBDA e : StrLess(x.name, e.name))

(***************************************************************************)
(* download_log.py: SerialFileDownloader.list_files                        *)
(***************************************************************************)
TIMEOUT == 5

LIST_FILES == <<"L", "I", "S", "T", "_", "F", "I", "L", "E", "S">>
FILE_LIST_START == <<"F", "I", "L", "E", "_", "L", "I", "S", "T", "_", "S", "T", "A", "R", "T">>
FILE_LIST_END == <<"F", "I", "L", "E", "_", "L", "I", "S", "T", "_", "E", "N", "D">>
FILE_LIST_ERROR_PREFIX == <<"F", "I", "L", "E", "_", "L", "I", "S", "T", "_", "E", "R", "R", "O", "R", ":">>
FILE_PREFIX == <<"F", "I", "L", "E", ":">>
DIR_PREFIX == <<"D", "I", "R", ":">>
UNKNOWN_ERROR == <<"U", "n", "k", "n", "o", "w", "n", " ", "e", "r", "r", "o", "r">>
ERROR_LABEL == <<"E", "R", "R", "O", "R", ":", " ">>

\* Python's None, and a returned list, as values of one shape.
NoneValue == [kind |-> "None", items |-> <<>>]
ListValue(items) == [kind |-> "list", items |-> items]

\* line = self.ser.readline().decode('ascii', errors='ignore').rstrip()
LfDecodeLine(raw) == RStripChars(DecodeAsciiIgnore(raw), Whitespace)

\* error_msg = line.split(":", 1)[1] if ":" in line else "Unknown error"
ErrorMsg(l) == IF Contains(l, ":") THEN Split(l, ":", 1)[2] ELSE UNKNOWN_ERROR

FileEntry(name, size) == [name |-> name, size |-> size, type |-> "file"]

\* {"name": dirname, "size": 0, "type": "dir"}
DirEntry(name) == [name |-> name, size |-> 0, type |-> "dir"]

ListResultMut(ds, fs) == ListValue(SortedByName(fs) \o ds)

\* result = sorted(dirs, key=name) + sorted(files, key=name); return result
ListResult(ds, fs) == ListValue(SortedByName(ds) \o SortedByName(fs))

ErrorReturnMut(ds, fs) == ListResult(ds, fs)

\* return None (the FILE_LIST_ERROR branch)
ErrorReturn(ds, fs) == NoneValue

\* ---- what the device can send in answer to LIST_FILES --------------------
LfBodies ==
    { FILE_LIST_START, FILE_LIST_END,
      <<"F", "I", "L", "E", "_", "L", "I", "S", "T", "_", "E", "R", "R", "O", "R", ":", "d", "i", "s", "k", " ", "f", "a", "u", "l", "t">>,
      <<"D", "I", "R", ":", "b">>,
      <<"D", "I", "R", ":", "a">>,
      <<"F", "I", "L", "E", ":", "a", ".", "c", "s", "v", ":", "1", "2", "0">>,
      <<"F", "I", "L", "E", ":", "z", ".", "c", "s", "v", ":", "5">>,
      <<"F", "I", "L", "E", ":", "a", ".", "c", "s", "v">>,
      <<"F", "I", "L", "E", ":", "a", ":", "b", ":", "1", "2">>,
      <<"F", "I", "L", "E", ":", "a", ".", "c", "s", "v", ":", "a", "b", "c">>,
      <<"o", "k">>,
      <<>> }

LfRawLines ==
    {b \o <<"\n">> : b \in LfBodies}
    \cup {<<"D", "I", "R", ":", "a">> \o <<" ", "\r", "\n">>,
          <<"0xFF">> \o FILE_LIST_START \o <<"\r", "\n">>}

\* The lines list_files gets from readline().decode().rstrip().
LfLines == {LfDecodeLine(raw) : raw \in LfRawLines}

\* The line adds an entry to files or dirs when processed while receiving.
AddsEntry(l) ==
    \/ StartsWith(l, DIR_PREFIX)
    \/ StartsWith(l, FILE_PREFIX) /\ Len(Split(l, ":", 2)) = 3 /\ IntValid(Split(l, ":", 2)[3])

LfInit ==
    /\ lf_pc = "idle"
    /\ lf_files = <<>>
    /\ lf_dirs = <<>>
    /\ lf_receiving = FALSE
    /\ lf_start = 0
    /\ lf_line = <<>>
    /\ lf_result = NoneValue
    /\ lf_stderr = <<>>
    /\ lf_exit = "none"
    /\ now = 0
    /\ lastProgress = 0
    /\ ser_out = <<>>

\* list_files, lines 63-69: send_command("LIST_FILES"), the locals, start.
\* The clock is read relative to this moment.
LfCall ==
    /\ lf_pc \in {"idle", "done"}
    /\ ser_out' = LIST_FILES \o <<"\n">>
    /\ lf_pc' = "running"
    /\ lf_files' = <<>>
    /\ lf_dirs' = <<>>
    /\ lf_receiving' = FALSE
    /\ now' = 0
    /\ lf_start' = 0
    /\ lastProgress' = 0
    /\ lf_line' = <<>>
    /\ lf_result' = NoneValue
    /\ lf_stderr' = <<>>
    /\ lf_exit' = "none"
    /\ UNCHANGED <<rfVars, dfVars, glVars, tuiVars>>

\* A second passes while list_files polls ser.in_waiting.
LfTick ==
    /\ lf_pc = "running"
    /\ now - lf_start < TIMEOUT
    /\ now < MaxNow
    /\ now' = now + 1
    /\ UNCHANGED <<lf_pc, lf_files, lf_dirs, lf_receiving, lf_start, lf_line,
                   lf_result, lf_stderr, lf_exit, lastProgress, ser_out>>
    /\ UNCHANGED <<rfVars, dfVars, glVars, tuiVars>>

\* One iteration of the while loop with ser.in_waiting > 0 (lines 70-92),
\* with the return that follows a break (lines 95-96).
LfLine(l) ==
    /\ lf_pc = "running"
    /\ now - lf_start < TIMEOUT
    /\ LET parts == Split(l, ":", 2) IN
       /\ AddsEntry(l) => Len(lf_files) + Len(lf_dirs) < MaxEntries
       /\ lf_line' = l
       /\ IF l = FILE_LIST_START
          THEN /\ lf_receiving' = TRUE
               /\ lf_start' = now
               /\ lastProgress' = now
               /\ UNCHANGED <<lf_pc, lf_files, lf_dirs, lf_result, lf_stderr, lf_exit>>
          ELSE IF l = FILE_LIST_END
          THEN /\ lf_result' = ListResult(lf_dirs, lf_files)
               /\ lf_pc' = "done"
               /\ lf_exit' = "end"
               /\ UNCHANGED <<lf_files, lf_dirs, lf_receiving, lf_start, lf_stderr,
                              lastProgress>>
          ELSE IF StartsWith(l, FILE_LIST_ERROR_PREFIX)
          THEN /\ lf_stderr' = ERROR_LABEL \o ErrorMsg(l) \o <<"\n">>
               /\ lf_result' = ErrorReturn(lf_dirs, lf_files)
               /\ lf_pc' = "done"
               /\ lf_exit' = "error"
               /\ UNCHANGED <<lf_files, lf_dirs, lf_receiving, lf_start, lastProgress>>
          ELSE IF lf_receiving /\ StartsWith(l, FILE_PREFIX)
          THEN IF Len(parts) = 3
               THEN IF IntValid(parts[3])
                    THEN /\ lf_files' = Append(lf_files, FileEntry(parts[2], IntValue(parts[3])))
                         /\ lastProgress' = now
                         /\ UNCHANGED <<lf_pc, lf_dirs, lf_receiving, lf_start,
                                        lf_result, lf_stderr, lf_exit>>
                    ELSE \* int(parts[2]) raises ValueError, which nothing catches
                         /\ lf_pc' = "raised"
                         /\ lf_exit' = "exception"
                         /\ UNCHANGED <<lf_files, lf_dirs, lf_receiving, lf_start,
                                        lf_result, lf_stderr, lastProgress>>
               ELSE UNCHANGED <<lf_pc, lf_files, lf_dirs, lf_receiving, lf_start,
                                lf_result, lf_stderr, lf_exit, lastProgress>>
          ELSE IF lf_receiving /\ StartsWith(l, DIR_PREFIX)
          THEN /\ lf_dirs' = Append(lf_dirs, DirEntry(Split(l, ":", 1)[2]))
               /\ lastProgress' = now
               /\ UNCHANGED <<lf_pc, lf_files, lf_receiving, lf_start, lf_result,
                              lf_stderr, lf_exit>>
          ELSE UNCHANGED <<lf_pc, lf_files, lf_dirs, lf_receiving, lf_start,
                           lf_result, lf_stderr, lf_exit, lastProgress>>
    /\ UNCHANGED <<now, ser_out>>
    /\ UNCHANGED <<rfVars, dfVars, glVars, tuiVars>>

\* The loop condition time.time() - start < TIMEOUT is false: the loop is
\* left and lines 95-96 return what was collected.
LfDeadline ==
    /\ lf_pc = "running"
    /\ ~(now - lf_start < TIMEOUT)
    /\ lf_result' = ListResult(lf_dirs, lf_files)
    /\ lf_pc' = "done"
    /\ lf_exit' = "deadline"
    /\ UNCHANGED <<lf_files, lf_dirs, lf_receiving, lf_start, lf_line, lf_stderr,
                   now, lastProgress, ser_out>>
    /\ UNCHANGED <<rfVars, dfVars, glVars, tuiVars>>

(***************************************************************************)
(* download_log.py: SerialFileDownloader.download_file                     *)
(***************************************************************************)
\* while time.time() - start < TIMEOUT * 10
DownloadTimeout == TIMEOUT * 10

\* The clock of a download is advanced half a DownloadTimeout at a time.
DfTickStep == TIMEOUT * 5

DOWNLOAD_FILE_PREFIX == <<"D", "O", "W", "N", "L", "O", "A", "D", "_", "F", "I", "L", "E", ":">>
FILE_SIZE_PREFIX == <<"F", "I", "L", "E", "_", "S", "I", "Z", "E", ":">>
FILE_START == <<"F", "I", "L", "E", "_", "S", "T", "A", "R", "T">>
FILE_END == <<"F", "I", "L", "E", "_", "E", "N", "D">>
FILE_ERROR_PREFIX == <<"F", "I", "L", "E", "_", "E", "R", "R", "O", "R", ":">>
NO_DATA_RECEIVED == <<"N", "o", " ", "d", "a", "t", "a", " ", "r", "e", "c", "e", "i", "v", "e", "d">>

\* Python's None and a str, as values of one shape.
PyNone == [kind |-> "None", val |-> <<>>]
PyStr(s) == [kind |-> "str", val |-> s]

RECURSIVE JoinLines(_)
\* "\n".join(file_data)
JoinLines(fd) ==
    IF fd = <<>> THEN <<>>
    ELSE IF Len(fd) = 1 THEN fd[1]
    ELSE fd[1] \o <<"\n">> \o JoinLines(Tail(fd))

AppendDataMut(fd, l) == <<l>> \o fd

\* file_data.append(line)
AppendData(fd, l) == Append(fd, l)

\* progress = (bytes_received / file_size) * 100, as the exact fraction.
Percent(b, n) == [num |-> b * 100, den |-> n]

ReportsProgressMut(n) == n >= 0

\* if progress_callback and file_size > 0 (tui_main always passes a callback)
ReportsProgress(n) == n > 0

\* progress_callback(progress, bytes_received, file_size)
ProgressCall(b, n) == [percent |-> Percent(b, n), current |-> b, total |-> n]

ErrorOutcomeMut(fd, msg) ==
    [content |-> IF fd = <<>> THEN PyNone ELSE PyStr(JoinLines(fd)), error |-> PyStr(msg)]

\* return None, error
ErrorOutcome(fd, msg) == [content |-> PyNone, error |-> PyStr(msg)]

FinalOutcomeMut(fd) == [content |-> PyStr(JoinLines(fd)), error |-> PyNone]

\* lines 139-142: what is returned once the loop is left
FinalOutcome(fd) ==
    IF fd = <<>>
    THEN [content |-> PyNone, error |-> PyStr(NO_DATA_RECEIVED)]
    ELSE [content |-> PyStr(JoinLines(fd)), error |-> PyNone]

\* ---- what the device can send in answer to DOWNLOAD_FILE ------------------
DfBodies ==
    { <<"F", "I", "L", "E", "_", "S", "I", "Z", "E", ":", "1", "0">>,
      <<"F", "I", "L", "E", "_", "S", "I", "Z", "E", ":", "0">>,
      <<"F", "I", "L", "E", "_", "S", "I", "Z", "E", ":", "a", "b", "c">>,
      FILE_START, FILE_END,
      <<"F", "I", "L", "E", "_", "E", "R", "R", "O", "R", ":", "b", "a", "d", ":", "x">>,
      <<"h", "e", "l", "l", "o">>,
      <<"h", "i">>,
      <<>> }

DfRawLines ==
    {b \o <<"\n">> : b \in DfBodies}
    \cup {<<"h", "e", "l", "l", "o">> \o <<" ", "\r", "\n">>,
          <<"0x80">> \o FILE_END \o <<"\r", "\n">>}

\* The lines download_file gets from readline().decode().rstrip().
DfLines == {LfDecodeLine(raw) : raw \in DfRawLines}

\* The file the browser asks for: "/" + selected["name"].
DfFilenames == {<<"/", "a", ".", "c", "s", "v">>}

\* One of the lines download_file tests for before it looks at `receiving`.
DfSentinel(l) ==
    \/ StartsWith(l, FILE_SIZE_PREFIX)
    \/ l = FILE_START
    \/ l = FILE_END
    \/ StartsWith(l, FILE_ERROR_PREFIX)

DfInit ==
    /\ df_pc = "idle"
    /\ df_file_data = <<>>
    /\ df_receiving = FALSE
    /\ df_file_size = 0
    /\ df_bytes_received = 0
    /\ df_start = 0
    /\ df_line = <<>>
    /\ df_result = [content |-> PyNone, error |-> PyNone]
    /\ df_calls = <<>>
    /\ df_exit = "none"
    /\ df_wasReceiving = FALSE
    /\ df_lastProgress = 0
    /\ df_modeSeen = FALSE
    /\ df_declared = -1
    /\ df_payload = <<>>
    /\ df_earlySeen = FALSE

\* download_file, lines 100-108: send_command, the locals, start.
\* The clock is read relative to this moment.
DfCall(filename) ==
    /\ df_pc \in {"idle", "done"}
    /\ ser_out' = DOWNLOAD_FILE_PREFIX \o filename \o <<"\n">>
    /\ df_pc' = "running"
    /\ df_file_data' = <<>>
    /\ df_receiving' = FALSE
    /\ df_file_size' = 0
    /\ df_bytes_received' = 0
    /\ now' = 0
    /\ df_start' = 0
    /\ df_line' = <<>>
    /\ df_result' = [content |-> PyNone, error |-> PyNone]
    /\ df_calls' = <<>>
    /\ df_exit' = "none"
    /\ df_wasReceiving' = FALSE
    /\ df_lastProgress' = 0
    /\ df_modeSeen' = FALSE
    /\ df_declared' = -1
    /\ df_payload' = <<>>
    /\ df_earlySeen' = FALSE
    /\ UNCHANGED <<rfVars, lfLocals, glVars, tuiVars>>

\* DfTickStep seconds pass while download_file polls ser.in_waiting.
DfTick ==
    /\ df_pc = "running"
    /\ now - df_start < DownloadTimeout
    /\ now < MaxTicks * DfTickStep
    /\ now' = now + DfTickStep
    /\ UNCHANGED <<rfVars, lfLocals, ser_out, dfVars, glVars, tuiVars>>

\* One iteration of the while loop with ser.in_waiting > 0 (lines 109-137),
\* with the return that follows a break (lines 139-142).
DfLine(l) ==
    /\ df_pc = "running"
    /\ now - df_start < DownloadTimeout
    /\ (df_receiving /\ l # <<>> /\ ~DfSentinel(l)) => Len(df_file_data) < MaxPayload
    /\ df_line' = l
    /\ df_payload' =
          IF df_modeSeen /\ l # <<>> /\ ~DfSentinel(l)
          THEN Append(df_payload, [line |-> l, declared |-> df_declared])
          ELSE df_payload
    /\ df_earlySeen' = (df_earlySeen \/ (~df_modeSeen /\ l # <<>> /\ ~DfSentinel(l)))
    /\ IF StartsWith(l, FILE_SIZE_PREFIX)
       THEN IF IntValid(Split(l, ":", 1)[2])
            THEN /\ df_file_size' = IntValue(Split(l, ":", 1)[2])
                 /\ df_receiving' = TRUE
                 /\ df_start' = now
                 /\ df_lastProgress' = now
                 /\ df_modeSeen' = TRUE
                 /\ df_declared' = IntValue(Split(l, ":", 1)[2])
                 /\ UNCHANGED <<df_pc, df_file_data, df_bytes_received, df_result,
                                df_calls, df_exit, df_wasReceiving>>
            ELSE \* int(...) raises ValueError, which nothing catches
                 /\ df_pc' = "raised"
                 /\ df_exit' = "exception"
                 /\ df_wasReceiving' = df_receiving
                 /\ UNCHANGED <<df_file_data, df_receiving, df_file_size,
                                df_bytes_received, df_start, df_result, df_calls,
                                df_lastProgress, df_modeSeen, df_declared>>
       ELSE IF l = FILE_START
       THEN /\ df_receiving' = TRUE
            /\ df_start' = now
            /\ df_lastProgress' = now
            /\ df_modeSeen' = TRUE
            /\ UNCHANGED <<df_pc, df_file_data, df_file_size, df_bytes_received,
                           df_result, df_calls, df_exit, df_wasReceiving, df_declared>>
       ELSE IF l = FILE_END
       THEN /\ df_receiving' = FALSE
            /\ df_wasReceiving' = df_receiving
            /\ df_result' = FinalOutcome(df_file_data)
            /\ df_pc' = "done"
            /\ df_exit' = "end"
            /\ UNCHANGED <<df_file_data, df_file_size, df_bytes_received, df_start,
                           df_calls, df_lastProgress, df_modeSeen, df_declared>>
       ELSE IF StartsWith(l, FILE_ERROR_PREFIX)
       THEN /\ df_result' = ErrorOutcome(df_file_data, Split(l, ":", 1)[2])
            /\ df_pc' = "done"
            /\ df_exit' = "error"
            /\ df_wasReceiving' = df_receiving
            /\ UNCHANGED <<df_file_data, df_receiving, df_file_size,
                           df_bytes_received, df_start, df_calls, df_lastProgress,
                           df_modeSeen, df_declared>>
       ELSE IF df_receiving /\ l # <<>>
       THEN /\ df_file_data' = AppendData(df_file_data, l)
            /\ df_bytes_received' = df_bytes_received + Len(l) + 1
            /\ df_calls' =
                  IF ReportsProgress(df_file_size)
                  THEN Append(df_calls,
                              ProgressCall(df_bytes_received + Len(l) + 1, df_file_size))
                  ELSE df_calls
            /\ df_lastProgress' = now
            /\ UNCHANGED <<df_pc, df_receiving, df_file_size, df_start, df_result,
                           df_exit, df_wasReceiving, df_modeSeen, df_declared>>
       ELSE UNCHANGED <<df_pc, df_file_data, df_receiving, df_file_size,
                        df_bytes_received, df_start, df_result, df_calls, df_exit,
                        df_wasReceiving, df_lastProgress, df_modeSeen, df_declared>>
    /\ UNCHANGED <<rfVars, lfLocals, now, ser_out, glVars, tuiVars>>

\* The loop condition time.time() - start < TIMEOUT * 10 is false: the loop
\* is left and lines 139-142 return.
DfDeadline ==
    /\ df_pc = "running"
    /\ ~(now - df_start < DownloadTimeout)
    /\ df_result' = FinalOutcome(df_file_data)
    /\ df_pc' = "done"
    /\ df_exit' = "deadline"
    /\ df_wasReceiving' = df_receiving
    /\ UNCHANGED <<df_file_data, df_receiving, df_file_size, df_bytes_received,
                   df_start, df_line, df_calls, df_lastProgress, df_modeSeen,
                   df_declared, df_payload, df_earlySeen>>
    /\ UNCHANGED <<rfVars, lfLocals, now, ser_out, glVars, tuiVars>>

(***************************************************************************)
(* download_log.py: SerialFileDownloader.get_current_log_filename          *)
(***************************************************************************)
GET_LOG_FILENAME == <<"G", "E", "T", "_", "L", "O", "G", "_", "F", "I", "L", "E", "N", "A", "M", "E">>
LOG_FILENAME_PREFIX == <<"L", "O", "G", "_", "F", "I", "L", "E", "N", "A", "M", "E", ":">>

\* self.ser.write((cmd + "\n").encode('ascii'))
SendCommand(cmd) == cmd \o <<"\n">>

\* str.strip()
StripChars(s) == LStripChars(RStripChars(s, Whitespace), Whitespace)

LogFilenameEveryColonMut(l) == StripChars(Split(l, ":", -1)[2])

LogFilenameVerbatimMut(l) == Split(l, ":", 1)[2]

\* filename = line.split(":", 1)[1].strip()
LogFilename(l) == StripChars(Split(l, ":", 1)[2])

\* ---- what the device can send in answer to GET_LOG_FILENAME ---------------
DevAnswers ==
    { <<"L", "O", "G", "_", "F", "I", "L", "E", "N", "A", "M", "E", ":", "/", "l", ":", "1">> \o <<"\r", "\n">>,
      <<"L", "O", "G", "_", "F", "I", "L", "E", "N", "A", "M", "E", ":", " ", "/", "l", "2">> \o <<"\n">> }

\* A line of the device's console that is no answer.
DevNoise == <<"I", ":", " ", "b", "o", "o", "t">> \o <<"\n">>

\* The shapes of what the device puts on the line for one command: nothing,
\* its answer, or a console line and then its answer.
DevResponses == {<<>>, <<"answer">>, <<"noise", "answer">>}

\* The lines of a response of shape resp to command number k.
DevLines(resp, k) ==
    [i \in 1..Len(resp) |->
        [raw |-> IF resp[i] = "answer" THEN dev_answer ELSE DevNoise, req |-> k]]

GlInit ==
    /\ gl_pc = "idle"
    /\ gl_start = 0
    /\ gl_line = <<>>
    /\ gl_result = PyNone
    /\ gl_exit = "none"
    /\ inbuf = <<>>
    /\ wire = <<>>
    /\ dev_answer \in DevAnswers
    /\ gl_sent = 0
    /\ gl_from = 0
    /\ gl_results = <<>>
    /\ gl_ignored = 0

\* get_current_log_filename, lines 48-51: send_command (which does not touch
\* the input buffer) and start.  The clock is read relative to this moment.
GlCall(resp) ==
    /\ gl_pc \in {"idle", "done"}
    /\ gl_sent < MaxCalls
    /\ ser_out' = SendCommand(GET_LOG_FILENAME)
    /\ wire' = wire \o DevLines(resp, gl_sent + 1)
    /\ gl_sent' = gl_sent + 1
    /\ gl_pc' = "running"
    /\ now' = 0
    /\ gl_start' = 0
    /\ gl_line' = <<>>
    /\ gl_result' = PyNone
    /\ gl_exit' = "none"
    /\ gl_from' = 0
    /\ gl_ignored' = 0
    /\ UNCHANGED <<inbuf, dev_answer, gl_results>>
    /\ UNCHANGED <<rfVars, lfLocals, dfVars, tuiVars>>

\* A line of the device reaches the input buffer of the port, whether a call
\* is waiting for it or not.
DeviceDeliver ==
    /\ wire # <<>>
    /\ inbuf' = Append(inbuf, Head(wire))
    /\ wire' = Tail(wire)
    /\ UNCHANGED <<gl_pc, gl_start, gl_line, gl_result, gl_exit, dev_answer,
                   gl_sent, gl_from, gl_results, gl_ignored>>
    /\ UNCHANGED <<rfVars, lfVars, dfVars, tuiVars>>

\* A second passes while get_current_log_filename polls ser.in_waiting and
\* finds nothing waiting (a waiting line is read before a second is over).
GlTick ==
    /\ gl_pc = "running"
    /\ now - gl_start < TIMEOUT
    /\ inbuf = <<>>
    /\ now' = now + 1
    /\ UNCHANGED <<rfVars, lfLocals, ser_out, dfVars, glVars, tuiVars>>

\* One iteration of the while loop with ser.in_waiting > 0 (lines 52-57).
GlLine ==
    /\ gl_pc = "running"
    /\ now - gl_start < TIMEOUT
    /\ inbuf # <<>>
    /\ inbuf' = Tail(inbuf)
    /\ gl_line' = LfDecodeLine(Head(inbuf).raw)
    /\ IF StartsWith(gl_line', LOG_FILENAME_PREFIX)
       THEN /\ gl_result' = PyStr(LogFilename(gl_line'))
            /\ gl_pc' = "done"
            /\ gl_exit' = "found"
            /\ gl_from' = Head(inbuf).req
            /\ gl_results' = Append(gl_results, gl_result')
            /\ UNCHANGED gl_ignored
       ELSE /\ gl_ignored' = gl_ignored + 1
            /\ UNCHANGED <<gl_pc, gl_result, gl_exit, gl_from, gl_results>>
    /\ UNCHANGED <<gl_start, wire, dev_answer, gl_sent>>
    /\ UNCHANGED <<rfVars, lfVars, dfVars, tuiVars>>

\* The loop condition time.time() - start < TIMEOUT is false: return None.
GlDeadline ==
    /\ gl_pc = "running"
    /\ ~(now - gl_start < TIMEOUT)
    /\ gl_result' = PyNone
    /\ gl_pc' = "done"
    /\ gl_exit' = "deadline"
    /\ gl_results' = Append(gl_results, PyNone)
    /\ UNCHANGED <<gl_start, gl_line, inbuf, wire, dev_answer, gl_sent, gl_from,
                   gl_ignored>>
    /\ UNCHANGED <<rfVars, lfVars, dfVars, tuiVars>>

(***************************************************************************)
(* download_log.py: tui_main and draw_menu                                 *)
(***************************************************************************)
\* A status line or return message: its fixed text and the value formatted
\* into it (0 where there is none).
Msg(text, n) == [text |-> text, n |-> n]

\* Python's truth value of a returned str-or-None.
Truthy(v) == v.kind = "str" /\ v.val # <<>>

\* len(files): defined for a list, TypeError for None.
HasLen(fl) == fl.kind = "list"

\* current_row = min(current_row, len(files) - 1) if files else 0
ClampRow(row, fl) ==
    IF fl.kind = "list" /\ fl.items # <<>>
    THEN (IF row < Len(fl.items) - 1 THEN row ELSE Len(fl.items) - 1)
    ELSE 0

\* ---- what list_files and download_file can hand to the browser ------------
\* The entries of the SD card: one directory and files.
CardNames == <<"d", "b", "a", "c", "e">>

CardEntry(i) ==
    IF i = 1 THEN DirEntry(<<CardNames[i]>>) ELSE FileEntry(<<CardNames[i]>>, i)

RECURSIVE CardPick(_, _)
\* The entries with a number in chosen, in the order the device reports them.
CardPick(chosen, i) ==
    IF i > MaxListing THEN <<>>
    ELSE (IF i \in chosen THEN <<CardEntry(i)>> ELSE <<>>) \o CardPick(chosen, i + 1)

\* What list_files returns: None, or the directories then the files, each
\* sorted by name.
TuiListings ==
    {NoneValue}
    \cup {ListResult(SelectSeq(CardPick(c, 1), LAMBDA e : e.type = "dir"),
                     SelectSeq(CardPick(c, 1), LAMBDA e : e.type = "file"))
            : c \in SUBSET (1..MaxListing)}

\* What download_file does: return a pair, or let an exception escape.
TuiDownloads ==
    {[raised |-> FALSE, ret |-> r] :
        r \in {ErrorOutcome(<<>>, <<"b", "a", "d">>),
               ErrorOutcome(<<>>, <<>>),
               FinalOutcome(<<>>),
               FinalOutcome(<<<<"h", "e", "l", "l", "o">>>>)}}
    \cup {[raised |-> TRUE, ret |-> FinalOutcome(<<>>)]}

TuiInit ==
    /\ tui_pc = "init"
    /\ files = NoneValue
    /\ current_row = 0
    /\ status_msg = Msg("", 0)
    /\ tui_result = Msg("", 0)
    /\ tui_exc = "none"

\* tui_main, lines 224-236: the initial listing.
TuiStart(res) ==
    /\ tui_pc = "init"
    /\ files' = res
    /\ current_row' = 0
    /\ IF res = NoneValue
       THEN /\ tui_result' = Msg("ERROR: Could not list files from ESP32", 0)
            /\ status_msg' = Msg("Loading files...", 0)
            /\ tui_pc' = "returned"
       ELSE IF res.items = <<>>
       THEN /\ tui_result' = Msg("No files found on SD card", 0)
            /\ status_msg' = Msg("Loading files...", 0)
            /\ tui_pc' = "returned"
       ELSE /\ status_msg' = Msg("Found items", Len(res.items))
            /\ tui_result' = tui_result
            /\ tui_pc' = "draw"
    /\ UNCHANGED tui_exc
    /\ UNCHANGED <<rfVars, lfVars, dfVars, glVars>>

\* Line 239: draw_menu(stdscr, files, current_row, status_msg), whose line
\* 181 takes len(files); then getch waits for a key.
TuiDraw ==
    /\ tui_pc = "draw"
    /\ IF HasLen(files)
       THEN /\ tui_pc' = "key"
            /\ UNCHANGED tui_exc
       ELSE /\ tui_pc' = "raised"
            /\ tui_exc' = "TypeError"
    /\ UNCHANGED <<files, current_row, status_msg, tui_result>>
    /\ UNCHANGED <<rfVars, lfVars, dfVars, glVars>>

\* KEY_UP, lines 243-245 (with current_row = 0 no branch is taken).
TuiKeyUp ==
    /\ tui_pc = "key"
    /\ IF current_row > 0
       THEN /\ current_row' = current_row - 1
            /\ status_msg' = Msg("", 0)
       ELSE UNCHANGED <<current_row, status_msg>>
    /\ tui_pc' = "draw"
    /\ UNCHANGED <<files, tui_result, tui_exc>>
    /\ UNCHANGED <<rfVars, lfVars, dfVars, glVars>>

\* KEY_DOWN, lines 246-248.
TuiKeyDown ==
    /\ tui_pc = "key"
    /\ IF ~HasLen(files)
       THEN /\ tui_pc' = "raised"
            /\ tui_exc' = "TypeError"
            /\ UNCHANGED <<current_row, status_msg>>
       ELSE /\ tui_pc' = "draw"
            /\ UNCHANGED tui_exc
            /\ IF current_row < Len(files.items) - 1
               THEN /\ current_row' = current_row + 1
                    /\ status_msg' = Msg("", 0)
               ELSE UNCHANGED <<current_row, status_msg>>
    /\ UNCHANGED <<files, tui_result>>
    /\ UNCHANGED <<rfVars, lfVars, dfVars, glVars>>

\* 'q' or 'Q', lines 249-250.
TuiKeyQuit ==
    /\ tui_pc = "key"
    /\ tui_pc' = "returned"
    /\ tui_result' = Msg("", 0)
    /\ UNCHANGED <<files, current_row, status_msg, tui_exc>>
    /\ UNCHANGED <<rfVars, lfVars, dfVars, glVars>>

\* 'r' or 'R', lines 251-261: draw, list_files again, clamp current_row.
TuiKeyRefresh(res) ==
    /\ tui_pc = "key"
    /\ IF ~HasLen(files)
       THEN /\ tui_pc' = "raised"
            /\ tui_exc' = "TypeError"
            /\ status_msg' = Msg("Refreshing...", 0)
            /\ UNCHANGED <<files, current_row>>
       ELSE /\ files' = res
            /\ status_msg' =
                  IF res = NoneValue THEN Msg("ERROR: Could not refresh file list", 0)
                  ELSE IF res.items = <<>> THEN Msg("No files found", 0)
                  ELSE Msg("Refreshed: items found", Len(res.items))
            /\ current_row' = ClampRow(current_row, res)
            /\ tui_pc' = "draw"
            /\ UNCHANGED tui_exc
    /\ UNCHANGED tui_result
    /\ UNCHANGED <<rfVars, lfVars, dfVars, glVars>>

\* ENTER, lines 262-293: selected = files[current_row], then the download
\* of a file (its progress callback draws the same listing and row).
TuiKeyEnter(dl, saved) ==
    /\ tui_pc = "key"
    /\ IF ~HasLen(files)
       THEN /\ tui_pc' = "raised"
            /\ tui_exc' = "TypeError"
            /\ UNCHANGED status_msg
       ELSE IF ~(current_row < Len(files.items))
       THEN /\ tui_pc' = "raised"
            /\ tui_exc' = "IndexError"
            /\ UNCHANGED status_msg
       ELSE IF files.items[current_row + 1].type = "dir"
       THEN /\ status_msg' = Msg("Cannot download directories", 0)
            /\ tui_pc' = "draw"
            /\ UNCHANGED tui_exc
       ELSE IF dl.raised
       THEN /\ status_msg' = Msg("Downloading ...", 0)
            /\ tui_pc' = "raised"
            /\ tui_exc' = "ValueError"
       ELSE /\ status_msg' =
                  IF Truthy(dl.ret.error) THEN Msg("ERROR: ", 0)
                  ELSE IF Truthy(dl.ret.content)
                  THEN (IF saved THEN Msg("Saved to", Len(dl.ret.content.val))
                        ELSE Msg("ERROR: Could not save file: ", 0))
                  ELSE Msg("ERROR: Download failed", 0)
            /\ tui_pc' = "draw"
            /\ UNCHANGED tui_exc
    /\ UNCHANGED <<files, current_row, tui_result>>
    /\ UNCHANGED <<rfVars, lfVars, dfVars, glVars>>

\* Any other key: no branch is taken and the loop draws again.
TuiKeyOther ==
    /\ tui_pc = "key"
    /\ tui_pc' = "draw"
    /\ UNCHANGED <<files, current_row, status_msg, tui_result, tui_exc>>
    /\ UNCHANGED <<rfVars, lfVars, dfVars, glVars>>

(***************************************************************************)
(* Specifications.                                                         *)
(***************************************************************************)
Init == RfInit /\ LfInit /\ DfInit /\ GlInit /\ TuiInit

\* read_serial.py: main() calling read_frame() in a loop.
NextFrame ==
    \/ RfCall
    \/ \E raw \in RfRawLines : RfReadLine(raw)

SpecFrame == Init /\ [][NextFrame]_vars

\* download_log.py: list_files() called by the file browser.
NextList ==
    \/ LfCall
    \/ LfTick
    \/ \E l \in LfLines : LfLine(l)
    \/ LfDeadline

SpecList == Init /\ [][NextList]_vars

\* download_log.py: download_file() called by the file browser.
NextDownload ==
    \/ \E f \in DfFilenames : DfCall(f)
    \/ DfTick
    \/ \E l \in DfLines : DfLine(l)
    \/ DfDeadline

SpecDownload == Init /\ [][NextDownload]_vars

\* download_log.py: get_current_log_filename() called on one connection.
NextLog ==
    \/ \E resp \in DevResponses : GlCall(resp)
    \/ DeviceDeliver
    \/ GlTick
    \/ GlLine
    \/ GlDeadline

SpecLog == Init /\ [][NextLog]_vars

\* download_log.py: tui_main() driven by key events.
NextBrowser ==
    \/ \E res \in TuiListings : TuiStart(res)
    \/ TuiDraw
    \/ TuiKeyUp
    \/ TuiKeyDown
    \/ TuiKeyQuit
    \/ \E res \in TuiListings : TuiKeyRefresh(res)
    \/ \E dl \in TuiDownloads, saved \in BOOLEAN : TuiKeyEnter(dl, saved)
    \/ TuiKeyOther

SpecBrowser == Init /\ [][NextBrowser]_vars

(***************************************************************************)
(* Properties of read_frame (checked under SpecFrame).                     *)
(***************************************************************************)
\* The index of a character in " .:-=+*#%@", 0 for any other character.
ExpectedRank(ch) ==
    CASE ch = " " -> 0 [] ch = "." -> 1 [] ch = ":" -> 2 [] ch = "-" -> 3
      [] ch = "=" -> 4 [] ch = "+" -> 5 [] ch = "*" -> 6 [] ch = "#" -> 7
      [] ch = "%" -> 8 [] ch = "@" -> 9 [] OTHER -> 0

ExpectedFrame(grid) ==
    [r \in 1..ROWS |-> [c \in 1..COLS |-> ExpectedRank(grid[r][c])]]

\* What a call of read_frame has produced so far.
RfOutcome ==
    IF rf_pc # "returned" THEN "pending"
    ELSE IF frame # <<>> THEN "Frame" ELSE "Timeout"

\* C1: the frame returned at FRAME_END holds, in every cell [r, c], the rank
\* in " .:-=+*#%@" of the character at row r, column c of the last ROWS
\* COLS-long lines read, and 0 for a character outside the alphabet; a
\* FRAME_END is turned down only when fewer than ROWS such lines were read,
\* whatever their characters.
C1_FrameDecoding ==
    /\ rf_pc = "returned" =>
          /\ Len(sinceEnd) >= ROWS
          /\ \A r \in 1..ROWS : \A c \in 1..COLS :
                frame[r][c] = ExpectedRank(LastN(sinceEnd, ROWS)[r][c])
    /\ (rf_pc = "reading" /\ rf_line = FRAME_END) => discardedK < ROWS

\* A frame was returned for a grid that holds an out-of-alphabet character
\* and a character of rank 9.
C1_Witness ==
    /\ rf_pc = "returned"
    /\ Len(sinceEnd) = ROWS
    /\ \E r \in 1..ROWS : \E c \in 1..COLS : sinceEnd[r][c] = "x"
    /\ \E r \in 1..ROWS : \E c \in 1..COLS : frame[r][c] = 9

\* C2 as stated: a frame is returned only when exactly ROWS COLS-long lines
\* were read since the previous FRAME_END.
C2_ExactlyRowsCollected ==
    rf_pc = "returned" => Len(sinceEnd) = ROWS

\* C2 as amended: a frame is returned at a FRAME_END line only when the row
\* buffer holds exactly ROWS lines of length COLS, which are the last ROWS of
\* the at least ROWS such lines read since the previous FRAME_END; at any
\* other FRAME_END the buffer is emptied and nothing is delivered.
C2_FrameOnlyFromFullBuffer ==
    /\ rf_pc = "returned" =>
          /\ rf_line = FRAME_END
          /\ Len(rows) = ROWS
          /\ \A i \in 1..Len(rows) : Len(rows[i]) = COLS
          /\ Len(sinceEnd) >= ROWS
          /\ rows = LastN(sinceEnd, ROWS)
    /\ rf_pc = "reading" => frame = <<>>
    /\ (rf_pc = "reading" /\ rf_line = FRAME_END) =>
          /\ rows = <<>>
          /\ discardedK < ROWS

\* A frame was returned after more than ROWS lines of length COLS.
C2_Witness ==
    /\ rf_pc = "returned"
    /\ Len(sinceEnd) > ROWS

\* C3: a FRAME_END after fewer than ROWS rows returns no frame and leaves
\* the row buffer empty, and a full grid of ROWS rows plus FRAME_END read
\* right after it is decoded to exactly that grid.
C3_Resync ==
    /\ (rf_pc = "reading" /\ rf_line = FRAME_END) =>
          /\ rows = <<>>
          /\ frame = <<>>
    /\ (rf_pc = "returned" /\ discardedK >= 0 /\ Len(sinceEnd) = ROWS) =>
          /\ rows = sinceEnd
          /\ frame = ExpectedFrame(sinceEnd)

\* A partial grid of at least one row was discarded, and the full grid read
\* right after it was returned.
C3_Witness ==
    /\ rf_pc = "returned"
    /\ discardedK >= 1
    /\ discardedK < ROWS
    /\ Len(sinceEnd) = ROWS

\* C4: once a read has expired with no line at all, the call has returned
\* Timeout instead of waiting on.
C4_TimeoutOnSilence ==
    rf_expired => RfOutcome = "Timeout"

\* C19: after any line the row buffer holds at most ROWS lines, each of
\* length COLS, namely the last of the COLS-long lines read since the
\* previous FRAME_END (so the oldest is the one dropped when a row arrives
\* at a full buffer); a line that is not FRAME_END and whose length is not
\* COLS leaves the buffer as it was.
C19_BufferBound ==
    /\ [](/\ Len(rows) <= ROWS
          /\ \A i \in 1..Len(rows) : Len(rows[i]) = COLS
          /\ rows = LastN(sinceEnd, ROWS))
    /\ [][(rf_pc = "reading" /\ rf_line' # FRAME_END /\ Len(rf_line') # COLS)
              => rows' = rows]_vars

\* A row arrived at a full buffer and the oldest row was dropped.
C19_Witness ==
    /\ rf_pc = "reading"
    /\ Len(sinceEnd) > ROWS
    /\ Len(rows) = ROWS
    /\ rows[1] = sinceEnd[Len(sinceEnd) - ROWS + 1]
    /\ rows[1] # sinceEnd[1]

(***************************************************************************)
(* Properties of list_files (checked under SpecList).                      *)
(***************************************************************************)
\* Occurrences of e in seq.
Count(seq, e) == Cardinality({i \in 1..Len(seq) : seq[i] = e})

ListingReturned == lf_pc = "done" /\ lf_result.kind = "list"

ExampleListing ==
    << [name |-> <<"a">>, size |-> 0, type |-> "dir"],
       [name |-> <<"b">>, size |-> 0, type |-> "dir"],
       [name |-> <<"a", ".", "c", "s", "v">>, size |-> 120, type |-> "file"],
       [name |-> <<"z", ".", "c", "s", "v">>, size |-> 5, type |-> "file"] >>

\* C5: a returned listing holds the directory entries, then the file
\* entries, each group ascending by name, every directory with size 0, and
\* every entry as often as it was collected; DIR:b, FILE:a.csv:120, DIR:a,
\* FILE:z.csv:5 gives [DIR a, DIR b, FILE a.csv(120), FILE z.csv(5)].
C5_ListingOrder ==
    ListingReturned =>
        LET items == lf_result.items
            nd == Len(lf_dirs)
        IN /\ Len(items) = nd + Len(lf_files)
           /\ \A i \in 1..Len(items) :
                 IF i <= nd
                 THEN items[i].type = "dir" /\ items[i].size = 0
                 ELSE items[i].type = "file"
           /\ \A i \in 1..Len(items) : \A j \in (i + 1)..Len(items) :
                 (i <= nd <=> j <= nd) => ~StrLess(items[j].name, items[i].name)
           /\ \A i \in 1..Len(items) :
                 Count(items, items[i]) = Count(lf_dirs \o lf_files, items[i])
           /\ (/\ [i \in 1..Len(lf_dirs) |-> lf_dirs[i].name] = << <<"b">>, <<"a">> >>
               /\ [i \in 1..Len(lf_files) |-> lf_files[i].name]
                     = << <<"a", ".", "c", "s", "v">>, <<"z", ".", "c", "s", "v">> >>)
              => items = ExampleListing

\* The listing of the example, whose directories arrived as b, a.
C5_Witness ==
    /\ ListingReturned
    /\ lf_exit = "end"
    /\ Len(lf_dirs) = 2
    /\ lf_dirs[1].name = <<"b">>
    /\ lf_result.items = ExampleListing

\* C6: a FILE_LIST_ERROR:<message> line ends list_files at once, before or
\* after FILE_LIST_START and whatever was collected: None is returned, no
\* entry with it, and <message> is reported (ERROR: <message> on stderr).
C6_ListError ==
    /\ StartsWith(lf_line, FILE_LIST_ERROR_PREFIX) =>
          /\ lf_pc = "done"
          /\ lf_exit = "error"
          /\ lf_result = NoneValue
          /\ lf_stderr = ERROR_LABEL
                            \o SubSeq(lf_line, Len(FILE_LIST_ERROR_PREFIX) + 1, Len(lf_line))
                            \o <<"\n">>
    /\ lf_exit = "error" => StartsWith(lf_line, FILE_LIST_ERROR_PREFIX)

\* The error line arrived after a file and a directory had been collected.
C6_Witness ==
    /\ lf_exit = "error"
    /\ lf_files # <<>>
    /\ lf_dirs # <<>>
    /\ lf_stderr = <<"E", "R", "R", "O", "R", ":", " ", "d", "i", "s", "k", " ", "f", "a", "u", "l", "t">> \o <<"\n">>

\* C7: after FILE_LIST_START the operation ends by deadline expiry only when
\* TIMEOUT has passed since the last FILE_LIST_START or accepted entry line.
C7_RollingDeadline ==
    (lf_exit = "deadline" /\ lf_receiving) => now - lastProgress >= TIMEOUT

\* C8: until FILE_LIST_START was received no line adds an entry, resets the
\* deadline or ends the operation (a FILE_LIST_ERROR line apart), which then
\* ends by deadline expiry TIMEOUT after the command was sent.
C8_IgnoredBeforeStart ==
    ~lf_receiving =>
        /\ lf_files = <<>>
        /\ lf_dirs = <<>>
        /\ lf_start = 0
        /\ (lf_pc = "done" /\ lf_exit # "error") =>
              (lf_exit = "deadline" /\ now >= TIMEOUT)

\* A FILE: line that is not FILE:<name>:<digits>.
MalformedFileLine(l) ==
    /\ StartsWith(l, FILE_PREFIX)
    /\ LET f == Split(l, ":", -1) IN
       ~(/\ Len(f) = 3
         /\ f[3] # <<>>
         /\ \A i \in 1..Len(f[3]) : f[3][i] \in Digits)

\* C9: a malformed FILE: line raises no error and adds no entry; the
\* operation goes on and ends only at FILE_LIST_END, an error line or the
\* deadline.
C9_MalformedSkipped ==
    /\ lf_pc # "raised"
    /\ \A i \in 1..Len(lf_files) : lf_files[i].size >= 0
    /\ MalformedFileLine(lf_line) => lf_exit \in {"none", "deadline"}

\* C10: a listing is returned only when FILE_LIST_END was received; deadline
\* expiry gives an outcome that is not a listing.
C10_ListingOnlyAfterEnd ==
    ListingReturned => lf_exit = "end"

(***************************************************************************)
(* Properties of download_file.                                            *)
(***************************************************************************)
\* The lines of the history df_payload.
PayloadLines == [i \in 1..Len(df_payload) |-> df_payload[i].line]

RECURSIVE SumBytes(_)
\* The bytes of a sequence of lines, one terminator counted for each line.
SumBytes(ls) == IF ls = <<>> THEN 0 ELSE Len(ls[1]) + 1 + SumBytes(Tail(ls))

\* The sink call due after the i-th payload line.
ExpectedCall(i) ==
    LET b == SumBytes(SubSeq(PayloadLines, 1, i))
        n == df_payload[i].declared
    IN [percent |-> [num |-> 100 * b, den |-> n], current |-> b, total |-> n]

\* df_calls is one call for each payload line whose index is in idx, in
\* arrival order, each with the values due at that line.
CallsAre(idx) ==
    /\ Len(df_calls) = Cardinality(idx)
    /\ \A i \in idx : df_calls[Cardinality({j \in idx : j <= i})] = ExpectedCall(i)

\* download_file returned content and no error.
DfSuccess ==
    /\ df_pc = "done"
    /\ df_result.content.kind = "str"
    /\ df_result.error = PyNone

\* download_file returned an error message and no content.
DfFailure(msg) ==
    /\ df_pc = "done"
    /\ df_result = [content |-> PyNone, error |-> PyStr(msg)]

\* C11 as stated: the sink is invoked once after each payload line appended
\* after a FILE_SIZE:<n> line, for every declared n (0 included), with the
\* bytes so far, n and bytes / n * 100; never when no FILE_SIZE line came.
C11_ProgressEveryDeclared ==
    CallsAre({i \in 1..Len(df_payload) : df_payload[i].declared >= 0})

\* C11, amended: the sink is invoked once after each payload line appended
\* while the declared size n is positive, in arrival order, with the bytes
\* so far (length + 1 for each line), n and the unclamped bytes / n * 100;
\* it is not invoked while n is 0 or no FILE_SIZE line was received.
C11_ProgressPositiveDeclared ==
    CallsAre({i \in 1..Len(df_payload) : df_payload[i].declared > 0})

\* FILE_SIZE:10, hello, FILE_END: content hello and one call (60%, 6, 10).
C11_Witness ==
    /\ DfSuccess
    /\ df_exit = "end"
    /\ df_declared = 10
    /\ df_result.content.val = <<"h", "e", "l", "l", "o">>
    /\ Len(df_calls) = 1
    /\ df_calls[1].current = 6
    /\ df_calls[1].total = 10
    /\ df_calls[1].percent.num = 60 * df_calls[1].percent.den

\* C12: download_file returns content only when FILE_END was received; a
\* loop left at the deadline reports failure whatever was accumulated.
C12_NoSilentSuccess ==
    /\ DfSuccess => df_exit = "end"
    /\ (df_pc = "done" /\ df_exit = "deadline") => df_result.content = PyNone

\* C13: every FILE_SIZE, FILE_START and appended payload line moves the
\* deadline to DownloadTimeout after its arrival, so the loop is left at the
\* deadline only DownloadTimeout after the last of them.
C13_RollingDeadline ==
    /\ df_pc = "running" => df_start = df_lastProgress
    /\ (df_pc = "done" /\ df_exit = "deadline") =>
          now - df_lastProgress >= DownloadTimeout

\* C14: a FILE_ERROR:<message> line ends download_file at once with the
\* text after the first colon as the error and no content; no outcome has
\* both content and an error.
C14_FileError ==
    /\ [](df_exit = "error" =>
            DfFailure(SubSeq(df_line, Len(FILE_ERROR_PREFIX) + 1, Len(df_line))))
    /\ [](~(df_result.content # PyNone /\ df_result.error # PyNone))
    /\ [][(df_pc = "running" /\ StartsWith(df_line', FILE_ERROR_PREFIX))
              => (df_pc' = "done" /\ df_exit' = "error")]_vars

\* FILE_ERROR arrived after payload lines had been accumulated.
C14_Witness ==
    /\ df_exit = "error"
    /\ df_file_data # <<>>
    /\ DfFailure(<<"b", "a", "d", ":", "x">>)

\* C15 as stated: FILE_END in receiving mode ends the download with
\* success, also when no payload line was received.
C15_EndIsSuccess ==
    (df_exit = "end" /\ df_wasReceiving) => DfSuccess

\* C15, amended: FILE_END in receiving mode ends the download; it is a
\* success when at least one payload line was received and the failure
\* "No data received" when none was.
C15_EndSuccessWithPayload ==
    (df_exit = "end" /\ df_wasReceiving) =>
        IF df_payload # <<>> THEN DfSuccess ELSE DfFailure(NO_DATA_RECEIVED)

\* FILE_START then FILE_END: the empty file ends in "No data received".
C15_Witness ==
    /\ df_exit = "end"
    /\ df_wasReceiving
    /\ df_payload = <<>>
    /\ DfFailure(NO_DATA_RECEIVED)

RECURSIVE Reassemble(_)
\* The lines with a terminator between each two of them.
Reassemble(ls) ==
    IF Len(ls) <= 1 THEN (IF ls = <<>> THEN <<>> ELSE ls[1])
    ELSE Reassemble(SubSeq(ls, 1, Len(ls) - 1)) \o <<"\n">> \o ls[Len(ls)]

\* C18: the accumulated content is the non-empty, non-sentinel lines
\* received since the first FILE_SIZE or FILE_START line, in arrival order;
\* earlier lines are no part of it.
C18_ContentIsPayload ==
    /\ df_file_data = PayloadLines
    /\ df_result.content # PyNone => df_result.content = PyStr(Reassemble(PayloadLines))

\* Two different payload lines were returned in arrival order, and a line
\* that came before receiving mode was left out.
C18_Witness ==
    /\ DfSuccess
    /\ df_earlySeen
    /\ Len(df_payload) = 2
    /\ df_payload[1].line # df_payload[2].line
    /\ df_result.content.val = Reassemble(PayloadLines)

(***************************************************************************)
(* Properties of get_current_log_filename.                                 *)
(***************************************************************************)
\* The text of the last line read after its first colon.
AfterFirstColon == SubSeq(gl_line, Len(LOG_FILENAME_PREFIX) + 1, Len(gl_line))

\* What holds of get_current_log_filename whatever the filename returned is:
\* lines without the prefix leave the call running and its deadline where
\* it was, the first line with the prefix ends it, and a call without such a
\* line reports no response once TIMEOUT has passed since the command.
GlIgnoresAndTimesOut ==
    /\ gl_pc = "running" => (~StartsWith(gl_line, LOG_FILENAME_PREFIX) /\ gl_start = 0)
    /\ gl_exit = "found" => (StartsWith(gl_line, LOG_FILENAME_PREFIX) /\ gl_pc = "done")
    /\ gl_exit = "deadline" =>
          /\ gl_result = PyNone
          /\ now - gl_start = TIMEOUT
          /\ ~StartsWith(gl_line, LOG_FILENAME_PREFIX)

\* C16 as stated: the filename returned is the text after the first colon
\* of the first LOG_FILENAME: line, as it stands; other lines are ignored
\* and extend nothing; without such a line within TIMEOUT, no response.
C16_TextAfterFirstColon ==
    /\ gl_exit = "found" => gl_result = PyStr(AfterFirstColon)
    /\ GlIgnoresAndTimesOut

\* C16, amended: the filename returned is the text after the first colon of
\* the first LOG_FILENAME: line with the whitespace around it removed
\* (colons inside kept); other lines are ignored and extend nothing;
\* without such a line within TIMEOUT, no response.
C16_TrimmedAfterFirstColon ==
    /\ gl_exit = "found" => gl_result = PyStr(LStripChars(AfterFirstColon, Whitespace))
    /\ GlIgnoresAndTimesOut

\* A name with a colon inside was returned after a console line was ignored.
C16_Witness ==
    /\ gl_exit = "found"
    /\ gl_ignored > 0
    /\ gl_result = PyStr(<<"/", "l", ":", "1">>)

\* The filename the device reports.
DevName ==
    IF dev_answer = <<"L", "O", "G", "_", "F", "I", "L", "E", "N", "A", "M", "E", ":", "/", "l", ":", "1">> \o <<"\r", "\n">>
    THEN <<"/", "l", ":", "1">>
    ELSE <<"/", "l", "2">>

C20_NoCrossTalk ==
    gl_exit = "found" => gl_from = gl_sent

(***************************************************************************)
(* Properties of tui_main.                                                 *)
(***************************************************************************)
\* C21: whenever the browser draws the listing or waits for a key that may
\* select an entry, the listing is a sequence and current_row is the index
\* of one of its entries (0 <= current_row < its length); no refresh, failed
\* or empty, leads to taking the length or an entry of a missing listing or
\* to an entry out of range.
C21_SelectionValid ==
    /\ tui_pc \in {"draw", "key"} =>
          /\ files.kind = "list"
          /\ 0 <= current_row
          /\ current_row < Len(files.items)
    /\ tui_exc \notin {"TypeError", "IndexError"}

=============================================================================
